---- MODULE Spec2Model ----
(***************************************************************************)
(* Model of main.py: the metadata feed, the keyword filter, the control    *)
(* table (sqlite), the download planner (get_download_list), the worker    *)
(* (download_csv) and the dispatcher (download_all over a process pool).   *)
(*                                                                         *)
(* Conventions.  Strings that the program only compares for equality are   *)
(* TLA+ strings.  Strings it searches are sequences of one-character       *)
(* strings.  A last_modified string is represented by its rank in Python's *)
(* str ordering, so that the program's "<" on them is "<" on the ranks.    *)
(* A Python value that the program tests with "not" or "in" is tagged with *)
(* its Python type: None, a 1-tuple (what fetchone returns) or a str.      *)
(***************************************************************************)
EXTENDS Integers, Sequences, FiniteSets, Bags, TLC

\* ------------------------------------------------------------------ bounds
NumIds == 2
NumVersions == 2
MaxFeed == 2
MaxRuns == 3
PoolSize == 2
MaxDbErrors == 1
MaxKeywords == 2
MaxRecords == 2
MaxHeader == 3

Ids == 1..NumIds
Versions == 1..NumVersions

VARIABLES
    control,    \* the rows of table control: a bag of [id, status, last_modified]
    files,      \* the file names present in DIR/data
    metadata,   \* the feed returned by the latest download_metadata
    links,      \* the worklist of the current run
    task,       \* task[i]: the download_csv call for links[i]: [pc, status, e]
    main,       \* position of the main process: "start" or "pool"
    outcome,    \* how the latest download_all ended
    runs,       \* number of download_all invocations so far
    dbErrors,   \* number of sqlite errors raised so far
    allOk,      \* every download_csv of the current run has succeeded so far
    clean,      \* the latest run returned and every download of it succeeded
    rerun,      \* the current run follows a clean run, against the same feed
    fPattern,   \* filter check: the pattern
    fData,      \* filter check: the records
    fOut,       \* filter check: what the generator yielded
    fDone,      \* filter check: the generator is exhausted
    header,     \* normalization check: the column header
    once,       \* normalization check: convert_to_snake_case(header)
    twice,      \* normalization check: convert_to_snake_case(once)
    hDone       \* normalization check: both calls have returned

vars == <<control, files, metadata, links, task, main, outcome, runs, dbErrors,
          allOk, clean, rerun, fPattern, fData, fOut, fDone,
          header, once, twice, hDone>>
pipelineVars == <<control, files, metadata, links, task, main, outcome, runs,
                  dbErrors, allOk, clean, rerun>>
filterVars == <<fPattern, fData, fOut, fDone>>
headerVars == <<header, once, twice, hDone>>
pureVars == <<filterVars, headerVars>>

\* ------------------------------------------------------- Python values
None == <<"None">>
PyTuple(x) == <<"tuple", x>>
PyStr(x) == <<"str", x>>
Truthy(v) == v # None
Item0(v) == v[2]

\* ------------------------------------------------------- strings, re.search
Lower(c) ==
    CASE c = "H" -> "h"
      [] c = "O" -> "o"
      [] c = "S" -> "s"
      [] c = "A" -> "a"
      [] OTHER -> c

LowerStr(s) == [i \in 1..Len(s) |-> Lower(s[i])]

\* re.search(pattern, keyword, flags=re.IGNORECASE) for a literal pattern
re_search(pattern, keyword) ==
    \E i \in 1..(Len(keyword) - Len(pattern) + 1) :
        LowerStr(SubSeq(keyword, i, i + Len(pattern) - 1)) = LowerStr(pattern)

\* the inner loop without its break: one yield per matching keyword
RECURSIVE YieldRowNoBreak(_, _, _)
YieldRowNoBreak(pattern, row, k) ==
    IF k > Len(row.keyword) THEN <<>>
    ELSE (IF re_search(pattern, row.keyword[k]) THEN <<row>> ELSE <<>>)
         \o YieldRowNoBreak(pattern, row, k + 1)

\* the inner loop of filter_metadata_by_keyword over row["keyword"], from
\* keyword k on: the row is yielded at the first matching keyword, then break
RECURSIVE YieldRow(_, _, _)
YieldRow(pattern, row, k) ==
    IF k > Len(row.keyword) THEN <<>>
    ELSE IF re_search(pattern, row.keyword[k]) THEN <<row>>
    ELSE YieldRow(pattern, row, k + 1)

\* the outer loop, from row i on
RECURSIVE FilterFrom(_, _, _)
FilterFrom(pattern, data, i) ==
    IF i > Len(data) THEN <<>>
    ELSE YieldRow(pattern, data[i], 1) \o FilterFrom(pattern, data, i + 1)

filter_metadata_by_keyword(pattern, data) == FilterFrom(pattern, data, 1)

\* ------------------------------------------------------- convert_to_snake_case
\* re.sub(old, new, val) for a one-character pattern old
RECURSIVE SubChar(_, _, _)
SubChar(old, new, val) ==
    IF val = <<>> THEN <<>>
    ELSE (IF Head(val) = old THEN new ELSE <<Head(val)>>)
         \o SubChar(old, new, Tail(val))

\* re.sub(" +", " ", val): every run of spaces becomes one space
RECURSIVE CollapseSpaces(_)
CollapseSpaces(val) ==
    IF val = <<>> THEN <<>>
    ELSE IF Head(val) = " " /\ Len(val) > 1 /\ val[2] = " "
         THEN CollapseSpaces(Tail(val))
         ELSE <<Head(val)>> \o CollapseSpaces(Tail(val))

\* the characters str.strip() removes
Whitespace == {" ", "\t"}

RECURSIVE LStrip(_)
LStrip(val) ==
    IF val # <<>> /\ Head(val) \in Whitespace THEN LStrip(Tail(val)) ELSE val

RECURSIVE RStrip(_)
RStrip(val) ==
    IF val # <<>> /\ val[Len(val)] \in Whitespace
    THEN RStrip(SubSeq(val, 1, Len(val) - 1)) ELSE val

\* val.strip()
Strip(val) == RStrip(LStrip(val))

\* the steps in another order: strip before the apostrophes are removed
convert_to_snake_case_StripFirst(val) ==
    LET v1 == Strip(val)
        v2 == SubChar("'", <<>>, v1)
        v3 == CollapseSpaces(v2)
        v4 == SubChar(" ", <<"_">>, v3)
    IN LowerStr(v4)

convert_to_snake_case(val) ==
    LET v1 == SubChar("'", <<>>, val)
        v2 == CollapseSpaces(v1)
        v3 == Strip(v2)
        v4 == SubChar(" ", <<"_">>, v3)
    IN LowerStr(v4)

\* ------------------------------------------------------- the control table
Row(id, status, last_modified) ==
    [id |-> id, status |-> status, last_modified |-> last_modified]

RECURSIVE SumCopies(_, _)
SumCopies(S, ctl) ==
    IF S = {} THEN 0
    ELSE LET r == CHOOSE x \in S : TRUE
         IN CopiesIn(r, ctl) + SumCopies(S \ {r}, ctl)

\* the rows a "where id = ? and last_modified = ?" selects
RowsAt(ctl, id, last_modified) ==
    {r \in BagToSet(ctl) : r.id = id /\ r.last_modified = last_modified}

\* number of rows of the key
CountAt(ctl, id, last_modified) == SumCopies(RowsAt(ctl, id, last_modified), ctl)

\* a table without the key: every insert is admitted
NoPrimaryKey(ctl, id, last_modified) == FALSE

\* the composite primary key (id, last_modified) of table control
PrimaryKeyViolation(ctl, id, last_modified) ==
    RowsAt(ctl, id, last_modified) # {}

\* the query without "and status = 'completed'": a row of any status
get_latest_download(ctl, id) ==
    LET hits == {r \in BagToSet(ctl) : r.id = id}
    IN IF hits = {} THEN {None}
       ELSE {PyTuple(r.last_modified) : r \in hits}

\* cur.fetchone() of get_latest_completed_download: the query has no
\* ORDER BY, so any completed row of the id may come first; None if none
get_latest_completed_download(ctl, id) ==
    LET hits == {r \in BagToSet(ctl) : r.id = id /\ r.status = "completed"}
    IN IF hits = {} THEN {None}
       ELSE {PyTuple(r.last_modified) : r \in hits}

\* cur.fetchone() of get_download_status
get_download_status(ctl, id, last_modified) ==
    LET hits == RowsAt(ctl, id, last_modified)
    IN IF hits = {} THEN {None}
       ELSE {PyTuple(r.status) : r \in hits}

\* the statement without "and last_modified = ?": every version of the id
update_every_version(ctl, id, status, last_modified) ==
    LET Upd(r) == IF r.id = id THEN [r EXCEPT !.status = status] ELSE r
        old == BagToSet(ctl)
    IN [n \in {Upd(r) : r \in old} |->
            SumCopies({r \in old : Upd(r) = n}, ctl)]

\* update control set status = ? where id = ? and last_modified = ?
update_download_status(ctl, id, status, last_modified) ==
    LET Upd(r) == IF r.id = id /\ r.last_modified = last_modified
                  THEN [r EXCEPT !.status = status] ELSE r
        old == BagToSet(ctl)
    IN [n \in {Upd(r) : r \in old} |->
            SumCopies({r \in old : Upd(r) = n}, ctl)]

\* insert into control (id, status, last_modified) values (?, ?, ?),
\* defined when the primary key admits the row
insert_new_download_status(ctl, id, status, last_modified) ==
    ctl (+) SetToBag({Row(id, status, last_modified)})

\* ------------------------------------------------------- the metadata feed
Hospitals == <<"H", "o", "s", "p", "i", "t", "a", "l", "s">>
Clinic == <<"c", "l", "i", "n", "i", "c">>
FeedKeywords == {<<Hospitals>>, <<Clinic>>}

\* the pattern of the entry point
pattern == <<"h", "o", "s", "p", "i", "t", "a", "l">>

\* a URL is its sequence of path segments; one URL per dataset
DownloadURL(id) == <<"data.cms.gov", id>>

\* url.split("/")[-1]
Filename(url) == url[Len(url)]

Records ==
    {[identifier |-> id, keyword |-> kw, modified |-> m,
      distribution |-> <<[downloadURL |-> DownloadURL(id)]>>] :
        id \in Ids, kw \in FeedKeywords, m \in Versions}

\* what req.json() can be
Feeds == UNION {[1..n -> Records] : n \in 0..MaxFeed}

\* ------------------------------------------------------- the planner
Link(id, url, last_modified) ==
    [id |-> id, url |-> url, last_modified |-> last_modified]

\* the test without its "not latest" half: a dataset never completed is skipped
NeedsDownloadNoneSkipped(latest, last_modified) ==
    Truthy(latest) /\ Item0(latest) < last_modified

\* the test of get_download_list on the looked-up row
NeedsDownload(latest, last_modified) ==
    ~Truthy(latest) \/ Item0(latest) < last_modified

\* the loop of get_download_list from row i on; latest[i] is what
\* get_latest_completed_download returned for row i
RECURSIVE PlanFrom(_, _, _)
PlanFrom(rows, latest, i) ==
    IF i > Len(rows) THEN <<>>
    ELSE LET id == rows[i].identifier
             url == rows[i].distribution[1].downloadURL
             last_modified == rows[i].modified
         IN (IF NeedsDownload(latest[i], last_modified)
             THEN <<Link(id, url, last_modified)>> ELSE <<>>)
            \o PlanFrom(rows, latest, i + 1)

\* the lookups the planner can see, one per filtered row
Lookups(ctl, rows) ==
    {f \in [1..Len(rows) -> {None} \cup {PyTuple(v) : v \in Versions}] :
        \A i \in 1..Len(rows) :
            f[i] \in get_latest_completed_download(ctl, rows[i].identifier)}

\* the worklists get_download_list can return on the feed
get_download_list(ctl, feed) ==
    LET rows == filter_metadata_by_keyword(pattern, feed)
    IN {PlanFrom(rows, latest, 1) : latest \in Lookups(ctl, rows)}

NewTask == [pc |-> "queued", status |-> None, e |-> "none"]

\* the metadata error swallowed: the run goes on with the metadata of the
\* run before
MetadataErrorSwallowed ==
    /\ main = "start"
    /\ runs < MaxRuns
    /\ runs' = runs + 1
    /\ outcome' = "metadata_error"
    /\ \E result \in get_download_list(control, metadata) :
        /\ links' = result
        /\ task' = [i \in 1..Len(result) |-> NewTask]
    /\ main' = "pool"
    /\ rerun' = FALSE
    /\ UNCHANGED <<control, files, metadata, dbErrors, allOk, clean>>
    /\ UNCHANGED pureVars

\* download_all up to the start of pool.starmap: the metadata is fetched,
\* the worklist is planned and handed to the pool
StartRun ==
    /\ main = "start"
    /\ runs < MaxRuns
    /\ \E feed \in Feeds :
        /\ metadata' = feed
        /\ rerun' = (clean /\ feed = metadata)
        /\ \E result \in get_download_list(control, feed) :
            /\ links' = result
            /\ task' = [i \in 1..Len(result) |-> NewTask]
    /\ main' = "pool"
    /\ outcome' = "running"
    /\ runs' = runs + 1
    /\ allOk' = TRUE
    /\ clean' = FALSE
    /\ UNCHANGED <<control, files, dbErrors>>
    /\ UNCHANGED pureVars

\* req.raise_for_status() or requests.get raises: the exception leaves
\* get_download_list and download_all
MetadataError ==
    /\ main = "start"
    /\ runs < MaxRuns
    /\ runs' = runs + 1
    /\ outcome' = "metadata_error"
    /\ links' = <<>>
    /\ task' = <<>>
    /\ rerun' = FALSE
    /\ UNCHANGED <<control, files, metadata, main, dbErrors, allOk, clean>>
    /\ UNCHANGED pureVars

\* a sqlite error in get_latest_completed_download leaves get_download_list
\* and download_all: the worklist built so far is lost
PlanDbError ==
    /\ main = "start"
    /\ runs < MaxRuns
    /\ dbErrors < MaxDbErrors
    /\ \E feed \in Feeds :
        /\ filter_metadata_by_keyword(pattern, feed) # <<>>
        /\ metadata' = feed
    /\ dbErrors' = dbErrors + 1
    /\ runs' = runs + 1
    /\ outcome' = "raised"
    /\ links' = <<>>
    /\ task' = <<>>
    /\ rerun' = FALSE
    /\ clean' = FALSE
    /\ UNCHANGED <<control, files, main, allOk>>
    /\ UNCHANGED pureVars

\* ------------------------------------------------------- the worker
Running(i) == task[i].pc \notin {"queued", "done", "raised"}

\* the statuses download_csv compares the looked-up row against
SkipStatuses == {PyStr("processing"), PyStr("completed")}

SetTask(i, pc, status) ==
    task' = [task EXCEPT ![i] = [pc |-> pc, status |-> status, e |-> "none"]]

\* the try block raises: "except Exception as e" catches what step raised
Catch(i, step) ==
    /\ task' = [task EXCEPT ![i] = [pc |-> "except", status |-> task[i].status,
                                     e |-> step]]
    /\ allOk' = FALSE

\* the exception leaves download_csv
Raise(i) ==
    /\ SetTask(i, "raised", task[i].status)
    /\ allOk' = FALSE

DbError == dbErrors < MaxDbErrors /\ dbErrors' = dbErrors + 1

\* a pool process takes the next task of the queue and download_csv runs
\* get_download_status.  starmap hands the worklist out in chunks of
\* ceil(len / (4 * pool size)) entries: one entry per task for every worklist
\* of at most 4 * PoolSize entries, which MaxFeed <= 4 * PoolSize keeps true
GetStatus(i) ==
    /\ main = "pool"
    /\ task[i].pc = "queued"
    /\ \A j \in 1..(i - 1) : task[j].pc # "queued"
    /\ Cardinality({j \in DOMAIN task : Running(j)}) < PoolSize
    /\ \/ /\ \E status \in get_download_status(control, links[i].id,
                                                links[i].last_modified) :
                SetTask(i, "mark", status)
          /\ UNCHANGED <<dbErrors, allOk>>
       \/ DbError /\ Raise(i)
    /\ UNCHANGED <<control, files, metadata, links, main, outcome, runs, clean, rerun>>
    /\ UNCHANGED pureVars

\* the branches moved inside the try: a rejected insert is caught by the
\* except clause
MarkInsertCaught(i) ==
    /\ main = "pool"
    /\ task[i].pc = "mark"
    /\ LET id == links[i].id
           last_modified == links[i].last_modified
           status == task[i].status
       IN IF ~Truthy(status)
          THEN \/ /\ ~PrimaryKeyViolation(control, id, last_modified)
                  /\ control' = insert_new_download_status(control, id, "processing",
                                                           last_modified)
                  /\ SetTask(i, "read_csv", status)
                  /\ UNCHANGED <<dbErrors, allOk>>
               \/ /\ PrimaryKeyViolation(control, id, last_modified)
                  /\ Catch(i, "sqlite")
                  /\ UNCHANGED <<control, dbErrors>>
               \/ DbError /\ Raise(i) /\ UNCHANGED control
          ELSE IF status \in SkipStatuses
          THEN /\ SetTask(i, "read_csv", status)
               /\ UNCHANGED <<control, dbErrors, allOk>>
          ELSE \/ /\ control' = update_download_status(control, id, "processing",
                                                       last_modified)
                  /\ SetTask(i, "read_csv", status)
                  /\ UNCHANGED <<dbErrors, allOk>>
               \/ DbError /\ Raise(i) /\ UNCHANGED control
    /\ UNCHANGED <<files, metadata, links, main, outcome, runs, clean, rerun>>
    /\ UNCHANGED pureVars

\* the if / elif / else of download_csv on the looked-up status
Mark(i) ==
    /\ main = "pool"
    /\ task[i].pc = "mark"
    /\ LET id == links[i].id
           last_modified == links[i].last_modified
           status == task[i].status
       IN IF ~Truthy(status)
          THEN \/ /\ ~PrimaryKeyViolation(control, id, last_modified)
                  /\ control' = insert_new_download_status(control, id, "processing",
                                                           last_modified)
                  /\ SetTask(i, "read_csv", status)
                  /\ UNCHANGED <<dbErrors, allOk>>
               \/ /\ PrimaryKeyViolation(control, id, last_modified)
                  /\ Raise(i)
                  /\ UNCHANGED <<control, dbErrors>>
               \/ DbError /\ Raise(i) /\ UNCHANGED control
          ELSE IF status \in SkipStatuses
          THEN /\ SetTask(i, "read_csv", status)
               /\ UNCHANGED <<control, dbErrors, allOk>>
          ELSE \/ /\ control' = update_download_status(control, id, "processing",
                                                       last_modified)
                  /\ SetTask(i, "read_csv", status)
                  /\ UNCHANGED <<dbErrors, allOk>>
               \/ DbError /\ Raise(i) /\ UNCHANGED control
    /\ UNCHANGED <<files, metadata, links, main, outcome, runs, clean, rerun>>
    /\ UNCHANGED pureVars

\* pd.read_csv(url) and the rename of the columns: done or raising
ReadCsv(i) ==
    /\ main = "pool"
    /\ task[i].pc = "read_csv"
    /\ \/ SetTask(i, "to_csv", task[i].status) /\ UNCHANGED allOk
       \/ Catch(i, "read_csv")
    /\ UNCHANGED <<control, files, metadata, links, main, outcome, runs, dbErrors,
                   clean, rerun>>
    /\ UNCHANGED pureVars

\* the write going elsewhere: no file appears in DIR/data
ToCsvNotWritten(i) ==
    /\ main = "pool"
    /\ task[i].pc = "to_csv"
    /\ \/ /\ SetTask(i, "set_completed", task[i].status)
          /\ UNCHANGED <<files, allOk>>
       \/ /\ Catch(i, "to_csv")
          /\ UNCHANGED files
    /\ UNCHANGED <<control, metadata, links, main, outcome, runs, dbErrors, clean, rerun>>
    /\ UNCHANGED pureVars

\* df.to_csv(path): the file is written, or the write raises
ToCsv(i) ==
    /\ main = "pool"
    /\ task[i].pc = "to_csv"
    /\ \/ /\ files' = files \cup {Filename(links[i].url)}
          /\ SetTask(i, "set_completed", task[i].status)
          /\ UNCHANGED allOk
       \/ /\ Catch(i, "to_csv")
          /\ UNCHANGED files
    /\ UNCHANGED <<control, metadata, links, main, outcome, runs, dbErrors, clean, rerun>>
    /\ UNCHANGED pureVars

\* the status misspelt
SetCompletedMisspelt(i) ==
    /\ main = "pool"
    /\ task[i].pc = "set_completed"
    /\ \/ /\ control' = update_download_status(control, links[i].id, "complete",
                                               links[i].last_modified)
          /\ SetTask(i, "done", task[i].status)
          /\ UNCHANGED <<dbErrors, allOk>>
       \/ /\ DbError
          /\ Catch(i, "sqlite")
          /\ UNCHANGED control
    /\ UNCHANGED <<files, metadata, links, main, outcome, runs, clean, rerun>>
    /\ UNCHANGED pureVars

\* update_download_status(id, "completed", last_modified), last of the try
SetCompleted(i) ==
    /\ main = "pool"
    /\ task[i].pc = "set_completed"
    /\ \/ /\ control' = update_download_status(control, links[i].id, "completed",
                                               links[i].last_modified)
          /\ SetTask(i, "done", task[i].status)
          /\ UNCHANGED <<dbErrors, allOk>>
       \/ /\ DbError
          /\ Catch(i, "sqlite")
          /\ UNCHANGED control
    /\ UNCHANGED <<files, metadata, links, main, outcome, runs, clean, rerun>>
    /\ UNCHANGED pureVars

\* the except clause: update_download_status(id, "failed", last_modified)
Except(i) ==
    /\ main = "pool"
    /\ task[i].pc = "except"
    /\ \/ /\ control' = update_download_status(control, links[i].id, "failed",
                                               links[i].last_modified)
          /\ SetTask(i, "done", task[i].status)
          /\ UNCHANGED <<dbErrors, allOk>>
       \/ DbError /\ Raise(i) /\ UNCHANGED control
    /\ UNCHANGED <<files, metadata, links, main, outcome, runs, clean, rerun>>
    /\ UNCHANGED pureVars

\* pool.starmap has every result: it returns, or re-raises a task's
\* exception, and download_all ends
FinishRun ==
    /\ main = "pool"
    /\ \A i \in DOMAIN task : task[i].pc \in {"done", "raised"}
    /\ main' = "start"
    /\ outcome' = IF \E i \in DOMAIN task : task[i].pc = "raised"
                  THEN "raised" ELSE "returned"
    /\ clean' = (allOk /\ \A i \in DOMAIN task : task[i].pc = "done")
    /\ UNCHANGED <<control, files, metadata, links, task, runs, dbErrors, allOk, rerun>>
    /\ UNCHANGED pureVars

\* ------------------------------------------------------- specification
Init ==
    /\ control = EmptyBag
    /\ files = {}
    /\ metadata = <<>>
    /\ links = <<>>
    /\ task = <<>>
    /\ main = "start"
    /\ outcome = "none"
    /\ runs = 0
    /\ dbErrors = 0
    /\ allOk = TRUE
    /\ clean = FALSE
    /\ rerun = FALSE
    /\ fPattern = <<>>
    /\ fData = <<>>
    /\ fOut = <<>>
    /\ fDone = FALSE
    /\ header = <<>>
    /\ once = <<>>
    /\ twice = <<>>
    /\ hDone = FALSE

Worker == \E i \in DOMAIN task :
    GetStatus(i) \/ Mark(i) \/ ReadCsv(i) \/ ToCsv(i) \/ SetCompleted(i) \/ Except(i)

Next == StartRun \/ MetadataError \/ PlanDbError \/ Worker \/ FinishRun

Spec == Init /\ [][Next]_vars

TypeOK ==
    /\ main \in {"start", "pool"}
    /\ runs \in 0..MaxRuns
    /\ dbErrors \in 0..MaxDbErrors
    /\ DOMAIN task = DOMAIN links

\* ------------------------------------------------------- the filter alone
FilterKeywords == {<<"H", "o">>, <<"o">>, <<"h">>}
FilterPatterns == {<<>>, <<"h">>, <<"O">>, <<"h", "O">>}
FilterRecords ==
    UNION {[keyword : [1..n -> FilterKeywords]] : n \in 0..MaxKeywords}

FilterInit ==
    /\ control = EmptyBag
    /\ files = {}
    /\ metadata = <<>>
    /\ links = <<>>
    /\ task = <<>>
    /\ main = "start"
    /\ outcome = "none"
    /\ runs = 0
    /\ dbErrors = 0
    /\ allOk = TRUE
    /\ clean = FALSE
    /\ rerun = FALSE
    /\ fPattern \in FilterPatterns
    /\ fData \in UNION {[1..n -> FilterRecords] : n \in 0..MaxRecords}
    /\ fOut = <<>>
    /\ fDone = FALSE
    /\ header = <<>>
    /\ once = <<>>
    /\ twice = <<>>
    /\ hDone = FALSE

\* list(filter_metadata_by_keyword(fPattern, fData))
ApplyFilter ==
    /\ ~fDone
    /\ fOut' = filter_metadata_by_keyword(fPattern, fData)
    /\ fDone' = TRUE
    /\ UNCHANGED <<fPattern, fData>>
    /\ UNCHANGED pipelineVars
    /\ UNCHANGED headerVars

FilterNext == ApplyFilter

FilterSpec == FilterInit /\ [][FilterNext]_vars

\* ------------------------------------------------------- the normalization alone
HeaderChars == {"'", " ", "\t", "A", "a", "_"}
Headers == UNION {[1..n -> HeaderChars] : n \in 0..MaxHeader}

HeaderInit ==
    /\ control = EmptyBag
    /\ files = {}
    /\ metadata = <<>>
    /\ links = <<>>
    /\ task = <<>>
    /\ main = "start"
    /\ outcome = "none"
    /\ runs = 0
    /\ dbErrors = 0
    /\ allOk = TRUE
    /\ clean = FALSE
    /\ rerun = FALSE
    /\ fPattern = <<>>
    /\ fData = <<>>
    /\ fOut = <<>>
    /\ fDone = FALSE
    /\ header \in Headers
    /\ once = <<>>
    /\ twice = <<>>
    /\ hDone = FALSE

\* convert_to_snake_case applied to the header and to its own result
ApplyTwice ==
    /\ ~hDone
    /\ once' = convert_to_snake_case(header)
    /\ twice' = convert_to_snake_case(convert_to_snake_case(header))
    /\ hDone' = TRUE
    /\ UNCHANGED header
    /\ UNCHANGED pipelineVars
    /\ UNCHANGED filterVars

HeaderNext == ApplyTwice

HeaderSpec == HeaderInit /\ [][HeaderNext]_vars

\* ------------------------------------------------------- properties
Statuses == {"processing", "completed", "failed"}

\* the step in which get_download_list returns its worklist to download_all
Planned == main = "start" /\ main' = "pool"

\* the call of task i has reached pd.read_csv or gone beyond it
AtFetch(i) == task[i].pc = "read_csv"

HasRow(ctl, id, status, last_modified) ==
    Row(id, status, last_modified) \in BagToSet(ctl)

\* C1: a run that follows a run which returned with every download succeeding,
\* against the same feed, has no download_csv call that reaches the CSV fetch.
C1_SecondRunFetchesNothing ==
    rerun => \A i \in DOMAIN task : ~AtFetch(i)

\* C2: a download_csv call that found the row of its key with status
\* processing or completed never reaches the CSV fetch.
C2_SkipFetchesNothing ==
    \A i \in DOMAIN task :
        task[i].status \in {PyTuple("processing"), PyTuple("completed")}
            => ~AtFetch(i)

\* C3: no exception leaves a download_csv call.
C3_NoExceptionEscapes ==
    \A i \in DOMAIN task : task[i].pc # "raised"

\* C4: the control table holds at most one row per (id, last_modified).
C4_OneRowPerKey ==
    \A id \in Ids, v \in Versions : CountAt(control, id, v) <= 1

\* two calls for the same key both saw no row; one inserted, the other's
\* insert was rejected
C4_Witness ==
    /\ dbErrors = 0
    /\ \E i, j \in DOMAIN task :
        /\ i # j
        /\ links[i] = links[j]
        /\ task[i].pc = "raised"
        /\ task[j].status = None
        /\ task[j].pc = "done"
        /\ CountAt(control, links[i].id, links[i].last_modified) = 1

\* C5: the planner never puts in the worklist a version whose row is completed.
C5_CompletedNotPlanned ==
    [][Planned =>
        \A i \in DOMAIN links' :
            ~HasRow(control, links'[i].id, "completed", links'[i].last_modified)]_vars

\* a keyword of the record matches the pattern
Matches(p, row) ==
    \E k \in DOMAIN row.keyword : re_search(p, row.keyword[k])

\* every completed row of the id is older than last_modified
NewerThanCompleted(ctl, id, last_modified) ==
    \A r \in BagToSet(ctl) :
        (r.id = id /\ r.status = "completed") => r.last_modified < last_modified

\* C6: a matching record of the feed whose version is newer than every
\* completed row of its identifier (or that has none) is in the worklist.
C6_NewVersionPlanned ==
    [][Planned =>
        \A k \in DOMAIN metadata' :
            LET row == metadata'[k]
            IN (Matches(pattern, row)
                    /\ NewerThanCompleted(control, row.identifier, row.modified))
               => \E i \in DOMAIN links' :
                    links'[i] = Link(row.identifier,
                                     row.distribution[1].downloadURL,
                                     row.modified)]_vars

\* a run has just planned a version newer than a completed one
C6_Witness ==
    /\ main = "pool"
    /\ \A i \in DOMAIN task : task[i].pc = "queued"
    /\ \E i \in DOMAIN links :
        /\ \E v \in Versions : HasRow(control, links[i].id, "completed", v)
        /\ NewerThanCompleted(control, links[i].id, links[i].last_modified)

\* C7: the planner never puts in the worklist a version whose row is processing.
C7_ProcessingNotPlanned ==
    [][Planned =>
        \A i \in DOMAIN links' :
            ~HasRow(control, links'[i].id, "processing", links'[i].last_modified)]_vars

\* C8: a run whose metadata fetch fails ends at once, with no worklist, no
\* task and the control table and the data directory as they were.
C8_MetadataErrorIsFatal ==
    [][(runs' = runs + 1 /\ outcome' = "metadata_error") =>
        /\ control' = control
        /\ files' = files
        /\ links' = <<>>
        /\ task' = <<>>
        /\ main' = "start"]_vars

\* a metadata fetch failed over a control table that holds rows
C8_Witness ==
    /\ outcome = "metadata_error"
    /\ main = "start"
    /\ control # EmptyBag

\* the row of the key holds a final status
Final(ctl, id, last_modified) ==
    /\ RowsAt(ctl, id, last_modified) # {}
    /\ \A r \in RowsAt(ctl, id, last_modified) : r.status \in {"completed", "failed"}

\* C9: a download_all that dispatched its worklist ends by returning, every
\* entry run to the end of download_csv and every key completed or failed.
C9_CompletionBarrier ==
    (main = "start" /\ outcome \in {"returned", "raised"} /\ links # <<>>) =>
        /\ outcome = "returned"
        /\ \A i \in DOMAIN links :
            /\ task[i].pc = "done"
            /\ Final(control, links[i].id, links[i].last_modified)

\* C10: the filter yields exactly the records with a keyword matching the
\* pattern, once each, in the order of the input, and changes nothing else.
C10_FilterExact ==
    fDone =>
        /\ fOut = SelectSeq(fData, LAMBDA row : Matches(fPattern, row))
        /\ control = EmptyBag
        /\ files = {}

\* a record with two matching keywords was yielded and another was dropped
C10_Witness ==
    /\ fDone
    /\ Len(fOut) = 1
    /\ Len(fData) = 2
    /\ Len(fOut[1].keyword) = 2
    /\ \A k \in 1..2 : re_search(fPattern, fOut[1].keyword[k])
    /\ fOut[1] = fData[2]

\* C11: normalizing a normalized header changes nothing.
C11_NormalizeIdempotent ==
    hDone => twice = once

\* a header with an apostrophe before inner whitespace, normalized
C11_Witness ==
    /\ hDone
    /\ Len(header) = 3
    /\ header[1] = "'"
    /\ header[2] = "\t"
    /\ once = <<"a">>

\* the status recorded for the key, "absent" when it has no row
StatusOf(ctl, id, last_modified) ==
    IF RowsAt(ctl, id, last_modified) = {} THEN "absent"
    ELSE (CHOOSE r \in RowsAt(ctl, id, last_modified) : TRUE).status

AllowedTransitions ==
    {<<"absent", "processing">>, <<"failed", "processing">>,
     <<"processing", "completed">>, <<"processing", "failed">>}

\* C12: the status of a key changes only by absent->processing,
\* failed->processing, processing->completed or processing->failed.
C12_OnlySpecifiedTransitions ==
    [][\A id \in Ids, v \in Versions :
        LET old == StatusOf(control, id, v)
            new == StatusOf(control', id, v)
        IN old = new \/ <<old, new>> \in AllowedTransitions]_vars

\* the greatest last_modified among the completed rows of the id, as the
\* lookup would return it
GreatestCompleted(ctl, id) ==
    LET done == {r.last_modified :
                    r \in {x \in BagToSet(ctl) : x.id = id /\ x.status = "completed"}}
    IN IF done = {} THEN None
       ELSE PyTuple(CHOOSE v \in done : \A w \in done : w <= v)

\* C13: get_latest_completed_download returns the greatest last_modified of
\* the completed rows of the id, and None when there is none.
C13_LookupReturnsGreatest ==
    \A id \in Ids :
        get_latest_completed_download(control, id) = {GreatestCompleted(control, id)}

\* the step of call i
StepOf(i) == runs' = runs /\ i \in DOMAIN task /\ task'[i] # task[i]

\* call i read no row for its key and another call has inserted it since
LostInsertRace(i) ==
    /\ task[i].pc = "mark"
    /\ task[i].status = None
    /\ PrimaryKeyViolation(control, links[i].id, links[i].last_modified)

\* C14: the call that loses the insert race ends with the exception leaving
\* download_csv: it writes nothing to the control table and, once ended, takes
\* no further step (no fetch, no status update).
C14_LosingInsertEscapes ==
    [][\A i \in DOMAIN task :
        /\ (LostInsertRace(i) /\ StepOf(i)) =>
                (task'[i].pc = "raised" /\ control' = control /\ files' = files)
        /\ (task[i].pc = "raised" /\ runs' = runs) => task'[i] = task[i]]_vars

\* both calls read absent; the loser has ended with the exception while the
\* winner's row is still processing
C14_Witness ==
    /\ dbErrors = 0
    /\ \E i, j \in DOMAIN task :
        /\ i # j
        /\ links[i].id = links[j].id
        /\ links[i].last_modified = links[j].last_modified
        /\ task[i].status = None
        /\ task[i].pc = "raised"
        /\ task[j].status = None
        /\ task[j].pc = "to_csv"
        /\ HasRow(control, links[j].id, "processing", links[j].last_modified)

\* no other entry of the worklist has the key of entry i
Alone(i) ==
    \A j \in DOMAIN links :
        (j # i) => (links[j].id # links[i].id
                        \/ links[j].last_modified # links[i].last_modified)

\* exactly one row of the key of entry i, with this status
OneRow(ctl, i, status) ==
    /\ HasRow(ctl, links[i].id, status, links[i].last_modified)
    /\ CountAt(ctl, links[i].id, links[i].last_modified) = 1

C15_WhileDownloading ==
    \A i \in DOMAIN task :
        (main = "pool" /\ Alone(i) /\ task[i].status = None) =>
            /\ task[i].pc \in {"read_csv", "to_csv", "set_completed"}
                    => OneRow(control, i, "processing")
            /\ task[i].pc = "set_completed" => Filename(links[i].url) \in files

C16_FailedDownloadRecorded ==
    [][\A i \in DOMAIN task :
        (task[i].status = None /\ task[i].pc = "except" /\ task[i].e = "read_csv"
            /\ StepOf(i))
        => /\ task'[i].pc = "done"
           /\ OneRow(control', i, "failed")
           /\ files' = files]_vars

\* the worklist entry of a record of the feed
LinkOf(row) ==
    Link(row.identifier, row.distribution[1].downloadURL, row.modified)

InWorklist(worklist, link) == \E i \in DOMAIN worklist : worklist[i] = link

\* C17 as stated: a matching record of the feed whose version has a failed
\* row is put in the worklist of the next run.
C17_FailedVersionPlanned ==
    [][Planned =>
        \A k \in DOMAIN metadata' :
            LET row == metadata'[k]
            IN (Matches(pattern, row)
                    /\ HasRow(control, row.identifier, "failed", row.modified))
               => InWorklist(links', LinkOf(row))]_vars

\* call i found the row of its key failed
Retry(i) == task[i].status = PyTuple("failed")

\* C17 amended: a matching record of the feed whose version has a failed row
\* and is newer than every completed row of its identifier is put in the
\* worklist; the call that finds the failed row writes by update only, first
\* processing, last completed or failed, the branch raising only on a sqlite
\* error, and the key keeps exactly one row.
C17_FailedVersionRetried ==
    [][/\ Planned =>
            \A k \in DOMAIN metadata' :
                LET row == metadata'[k]
                IN (Matches(pattern, row)
                        /\ HasRow(control, row.identifier, "failed", row.modified)
                        /\ NewerThanCompleted(control, row.identifier, row.modified))
                   => InWorklist(links', LinkOf(row))
       /\ \A i \in DOMAIN task :
            (Retry(i) /\ StepOf(i)) =>
                /\ CountAt(control', links[i].id, links[i].last_modified) = 1
                /\ task[i].pc = "mark" =>
                        \/ (task'[i].pc = "read_csv"
                                /\ OneRow(control', i, "processing"))
                        \/ (task'[i].pc = "raised" /\ dbErrors' = dbErrors + 1
                                /\ control' = control)
                /\ task'[i].pc = "done" =>
                        (OneRow(control', i, "completed")
                            \/ OneRow(control', i, "failed"))]_vars

\* a later run found the failed row and has completed the version
C17_Witness ==
    /\ runs >= 2
    /\ \E i \in DOMAIN task :
        /\ Retry(i)
        /\ task[i].pc = "done"
        /\ OneRow(control, i, "completed")

\* C18: every row has status processing, completed or failed, and no key
\* ever loses a row: the keys present only grow.
C18_StatusDomainAndPermanence ==
    /\ [](\A r \in BagToSet(control) : r.status \in Statuses)
    /\ [][\A id \in Ids, v \in Versions :
            CountAt(control', id, v) >= CountAt(control, id, v)]_vars

\* rows of the three statuses stand side by side in a later run
C18_Witness ==
    /\ runs >= 2
    /\ \A st \in Statuses : \E r \in BagToSet(control) : r.status = st

\* the rows of every key but that of entry i
OtherRows(ctl, i) ==
    {<<r, CopiesIn(r, ctl)>> :
        r \in {x \in BagToSet(ctl) :
                x.id # links[i].id \/ x.last_modified # links[i].last_modified}}

\* C19: a step of a download_csv call leaves the rows of every key other
\* than its own as they were.
C19_OtherKeysUntouched ==
    [][\A i \in DOMAIN task :
        StepOf(i) => OtherRows(control', i) = OtherRows(control, i)]_vars

\* a call has completed its version while rows of an older version of the
\* same id and of another id are in the table
C19_Witness ==
    \E i \in DOMAIN task :
        /\ task[i].pc = "done"
        /\ OneRow(control, i, "completed")
        /\ \E r \in BagToSet(control) :
            r.id = links[i].id /\ r.last_modified < links[i].last_modified
                /\ r.status = "failed"
        /\ \E r \in BagToSet(control) : r.id # links[i].id

====
